---- MODULE Spec2Model ----
(***************************************************************************)
(* A model of package log (github.com/hegh/log): a Logger is a bundle of   *)
(* four severity channels, each an emitter (a standard-library log.Logger) *)
(* whose destination is a rewriter holding the ADDRESS of one of the       *)
(* Logger's exported sink fields, a pointer to a verbosity cell, and an    *)
(* exit callback.                                                          *)
(*                                                                         *)
(* Strings are sequences of tokens, so that formatting and line building   *)
(* are real concatenations.  The date and time of a line's header are not  *)
(* modelled; its prefix, its source location and its message are.          *)
(***************************************************************************)
EXTENDS Integers, Sequences, FiniteSets, TLC

\* ------------------------------------------------------------------ bounds
MaxLevel == 1
MaxLoggers == 2
MaxLines == 2

\* ------------------------------------------------------- program constants
logDepth == 3
rootDepth == 3
DefaultVerbosity == 0
DefaultExitStatus == 1

\* ------------------------------------------------------------------ inputs
Levels == 0..MaxLevel
Names == {"", "a"}
Fields == {"Info", "Warn", "Error", "Fatal"}
Buffers == {"il", "wl", "el", "fl"}
Sinks == {"os.Stderr"} \cup Buffers
\* The three functions of a TestLogable (a testing.T, or the tests' fakeTest).
Capabilities == {"t.Logf", "t.Errorf", "t.Fatalf"}
\* Everything a line can be delivered to.
Destinations == Sinks \cup Capabilities
\* What a sink's Write returns: nil, or an error.
Errs == {"nil", "EIO"}
\* Exit callbacks: none, the one New installs, and a caller's closure that
\* records the call and returns (the tests').
Callbacks == {"nil", "osExit", "testExit"}
\* The (format, arguments) pairs the callers pass; the first is the tests'.
TestCall == [format |-> <<"Test ", "%s">>, args |-> << <<"message">> >>]
Calls == { TestCall, [format |-> <<"plain">>, args |-> << >>] }

VARIABLES
    Verbosity,   \* the cell the flag "verbosity" points to
    Root,        \* the id of the Logger the package variable Root points to
    loggers,     \* the heap of Loggers: loggers[id] is the Logger at address id
    cells,       \* cells[id]: the private verbosity cell of Logger id
    sinks,       \* sinks[s]: the Write calls sink s has received, in order
    std,         \* what was handed to the standard library's base logger
    pc,          \* the calling goroutine: "running", "panicking" or "exited"
    panicv,      \* the value of the panic in flight (<<>> when none)
    status,      \* the process's exit status once it has exited (0 - 1 before)
    last,        \* the most recent call and what it did, in program order
    goroutine    \* a second goroutine: the call it is in and how far it got

vars == <<Verbosity, Root, loggers, cells, sinks, std, pc, panicv, status, last,
          goroutine>>

\* ---------------------------------------------------------------- strings
RECURSIVE Concat(_)
Concat(ss) == IF ss = << >> THEN << >> ELSE Head(ss) \o Concat(Tail(ss))

IsVerb(tok) == tok \in {"%s", "%v"}

\* fmt.Sprintf: the verbs of the format are replaced, in order, by the
\* arguments; a verb with no argument left becomes an in-band marker, and
\* arguments left over are reported at the end.
RECURSIVE SprintfFrom(_, _)
SprintfFrom(format, args) ==
    IF format = << >>
    THEN IF args = << >> THEN << >>
         ELSE <<"%!(EXTRA ">> \o Concat(args) \o <<")">>
    ELSE IF IsVerb(Head(format))
         THEN IF args = << >>
              THEN <<"%!", Head(format), "(MISSING)">> \o SprintfFrom(Tail(format), args)
              ELSE Head(args) \o SprintfFrom(Tail(format), Tail(args))
         ELSE <<Head(format)>> \o SprintfFrom(Tail(format), args)

Sprintf(format, args) == SprintfFrom(format, args)

\* ------------------------------------------------------------ the Logger
\* The frames above log.Logger.Output when a severity operation named op runs:
\* runtime.Caller(0) is Output itself, then write, then the operation, then
\* the code that called it.
Stack(op) == <<"log.Output", "write", op, "caller">>

Caller(stack, skip) ==
    IF skip + 1 \in DOMAIN stack THEN stack[skip + 1] ELSE "???"

\* A rewriter that always points into the first Logger.
rewriterShared(id, field) == [id |-> 1, field |-> field]

\* rewriter{&l.X}: the address of field X of the Logger at address id.
rewriter(id, field) == [id |-> id, field |-> field]

\* A rewriter that kept the sink bound at construction.
rewriterWriteSnapshot(w) == "os.Stderr"

\* A rewriter that always writes through the Info field.
rewriterWriteInfo(w) == loggers[w.id].Info

\* rewriter.Write: the sink the field holds now receives the bytes.
rewriterWrite(w) == loggers[w.id][w.field]

\* testWriter{f}: an io.Writer over one function of the harness.
testWriter(f) == [f |-> f]

\* testWriter.Write: t.f("%s", p); return len(p), nil.
testWriterWrite(t) == t.f

\* The flags New and testLog give their emitters.
flags == {"Ldate", "Ltime", "Lshortfile"}
Lmicroseconds == {"Lmicroseconds"}

\* log.New(out, prefix, flags): an emitter.
logNew(out, prefix, flag) == [out |-> out, prefix |-> prefix, flags |-> flag]

\* testLog(level, f)
testLog(level, f) == logNew(testWriter(f), level, Lmicroseconds)

\* A New whose Warn emitter is wired to the Info field.
NewMiswired(id, name) ==
    [ name      |-> name,
      Verbosity |-> 0,
      Info      |-> "os.Stderr",
      Warn      |-> "os.Stderr",
      Error     |-> "os.Stderr",
      Fatal     |-> "os.Stderr",
      Exit      |-> "osExit",
      i         |-> logNew(rewriter(id, "Info"), "I", flags),
      w         |-> logNew(rewriter(id, "Info"), "W", flags),
      e         |-> logNew(rewriter(id, "Error"), "E", flags),
      f         |-> logNew(rewriter(id, "Fatal"), "F", flags) ]

\* New(name), allocated at address id.
New(id, name) ==
    [ name      |-> name,
      Verbosity |-> 0,
      Info      |-> "os.Stderr",
      Warn      |-> "os.Stderr",
      Error     |-> "os.Stderr",
      Fatal     |-> "os.Stderr",
      Exit      |-> "osExit",
      i         |-> logNew(rewriter(id, "Info"), "I", flags),
      w         |-> logNew(rewriter(id, "Warn"), "W", flags),
      e         |-> logNew(rewriter(id, "Error"), "E", flags),
      f         |-> logNew(rewriter(id, "Fatal"), "F", flags) ]

\* A NewTest that reads failOnError the wrong way round.
NewTestInverted(id, name, failOnError) ==
    [ name      |-> name,
      Verbosity |-> 0,
      Info      |-> "nil",
      Warn      |-> "nil",
      Error     |-> "nil",
      Fatal     |-> "nil",
      Exit      |-> "nil",
      i         |-> testLog("I", "t.Logf"),
      w         |-> testLog("W", "t.Logf"),
      e         |-> IF failOnError THEN testLog("E", "t.Logf")
                                   ELSE testLog("E", "t.Errorf"),
      f         |-> testLog("F", "t.Fatalf") ]

\* A NewTest that puts t.Fatalf's writer in the Fatal field and lets the F
\* emitter write through the field, as New does.
NewTestThroughField(id, name, failOnError) ==
    [ name      |-> name,
      Verbosity |-> 0,
      Info      |-> "nil",
      Warn      |-> "nil",
      Error     |-> "nil",
      Fatal     |-> "t.Fatalf",
      Exit      |-> "nil",
      i         |-> testLog("I", "t.Logf"),
      w         |-> testLog("W", "t.Logf"),
      e         |-> IF failOnError THEN testLog("E", "t.Errorf")
                                   ELSE testLog("E", "t.Logf"),
      f         |-> logNew(rewriter(id, "Fatal"), "F", Lmicroseconds) ]

\* NewTest(t, name, failOnError), allocated at address id: the sink fields and
\* Exit keep their zero value.
NewTest(id, name, failOnError) ==
    [ name      |-> name,
      Verbosity |-> 0,
      Info      |-> "nil",
      Warn      |-> "nil",
      Error     |-> "nil",
      Fatal     |-> "nil",
      Exit      |-> "nil",
      i         |-> testLog("I", "t.Logf"),
      w         |-> testLog("W", "t.Logf"),
      e         |-> IF failOnError THEN testLog("E", "t.Errorf")
                                   ELSE testLog("E", "t.Logf"),
      f         |-> testLog("F", "t.Fatalf") ]

\* *p for a verbosity pointer p: 0 is the flag's cell, id the private cell
\* SetVerbosity made for the Logger at address id.
Deref(p) == IF p = 0 THEN Verbosity ELSE cells[p]

\* *l.Verbosity
Threshold(id) == Deref(loggers[id].Verbosity)

\* A gate that is strict: level < *l.Verbosity.
LoudEnoughStrict(id, level) == level < Threshold(id)

\* (l *Logger) LoudEnough(level)
LoudEnough(id, level) == level <= Threshold(id)

\* One effect of a call, in program order.
\*   Write : sink `to` received `data`, and its Write returned `err`
\*   Notice: the base logger was handed `data`
\*   Exit  : the exit callback `to` was invoked with the arguments `data`
\*   Panic : panic(errors.New(data))
Event(k, to, data, err) == [k |-> k, to |-> to, data |-> data, err |-> err]

\* Whether an io.Writer held by an emitter is a testWriter.
IsTestWriter(w) == "f" \in DOMAIN w

\* out.Write(p) of an emitter: where the bytes go, ...
WriteTo(w) == IF IsTestWriter(w) THEN testWriterWrite(w) ELSE rewriterWrite(w)

\* ... and what the call returns, err being what a sink's Write returns.
WriteErr(w, err) == IF IsTestWriter(w) THEN "nil" ELSE err

\* Logable.Output(calldepth, s) of an emitter: one line, one Write.  The file
\* and line of the caller are in the header only under Lshortfile.
OutputLine(em, calldepth, s, stack) ==
    <<em.prefix>>
    \o (IF "Lshortfile" \in em.flags
        THEN <<Caller(stack, calldepth), ": ">> ELSE << >>)
    \o s \o <<"\n">>

Output(em, calldepth, s, stack, err) ==
    Event("Write", WriteTo(em.out), OutputLine(em, calldepth, s, stack),
          WriteErr(em.out, err))

NoticeFormat ==
    <<"Failed to write to ", "%s", " logger: ", "%v", ".\n  Message: ", "%s">>

\* A write that hands the line to another goroutine and returns at once.
writeDeferred(em, depth, name, format, args, err, stack) ==
    [ msg    |-> Sprintf(format, args),
      events |-> << >> ]

\* A write that drops a failure silently.
writeSilent(em, depth, name, format, args, err, stack) ==
    [ msg    |-> Sprintf(format, args),
      events |-> <<Output(em, depth, Sprintf(format, args), stack, err)>> ]

\* A write that tries the sink again after a failure.
writeRetry(em, depth, name, format, args, err, stack) ==
    LET msg == Sprintf(format, args)
        out == Output(em, depth, msg, stack, err)
    IN  [ msg    |-> msg,
          events |-> IF out.err # "nil"
                     THEN <<out, out, Event("Notice", "std",
                                            Sprintf(NoticeFormat, <<name, <<out.err>>, msg>>),
                                            "nil")>>
                     ELSE <<out>> ]

\* write(l, depth, name, format, v...): the formatted message and what was done.
\* err is what a sink's Write returns; out.err is what Output returns.
write(em, depth, name, format, args, err, stack) ==
    LET msg == Sprintf(format, args)
        out == Output(em, depth, msg, stack, err)
    IN  [ msg    |-> msg,
          events |-> IF out.err # "nil"
                     THEN <<out, Event("Notice", "std",
                                       Sprintf(NoticeFormat, <<name, <<out.err>>, msg>>),
                                       "nil")>>
                     ELSE <<out>> ]

\* ------------------------------------------------------------ fan-out sinks
\* io.MultiWriter(writers...): a sink that writes to each of its writers in
\* turn and stops at the first that fails.  A fan-out sink is a value fixed by
\* the list of its writers, and is named after it: "mw(il,wl)".
RECURSIVE Join(_)
Join(parts) ==
    IF Len(parts) = 1 THEN parts[1]
    ELSE parts[1] \o "," \o Join(Tail(parts))

MultiName(parts) == "mw(" \o Join(parts) \o ")"

\* The lists a fan-out sink can hold: at most one writer per severity.
FanLists == UNION {[1..n -> Sinks] : n \in 1..Cardinality(Fields)}

FanTable == [m \in {MultiName(q) : q \in FanLists} |->
                CHOOSE q \in FanLists : MultiName(q) = m]

IsMulti(s) == s \in DOMAIN FanTable

\* The writers of a sink: its list for a fan-out sink, itself otherwise.
Parts(s) == IF IsMulti(s) THEN FanTable[s] ELSE <<s>>

\* io.MultiWriter copies the writers of an argument that is a fan-out sink.
MultiWriter(ws) == MultiName(Concat([k \in DOMAIN ws |-> Parts(ws[k])]))

\* The sinks a Write to `to` reaches when the first Write it makes returns err.
Deliveries(to, err) ==
    IF err = "nil" THEN Parts(to) ELSE <<Head(Parts(to))>>

\* ---------------------------------------------------------- applying effects
RECURSIVE Deliver(_, _, _)
Deliver(sk, tos, rec) ==
    IF tos = << >> THEN sk
    ELSE Deliver([sk EXCEPT ![Head(tos)] = Append(@, rec)], Tail(tos), rec)

RECURSIVE ApplySinks(_, _)
ApplySinks(sk, events) ==
    IF events = << >> THEN sk
    ELSE LET ev == Head(events)
         IN  ApplySinks(IF ev.k = "Write"
                        THEN Deliver(sk, Deliveries(ev.to, ev.err),
                                     [line |-> ev.data, err |-> ev.err])
                        ELSE sk,
                        Tail(events))

RECURSIVE ApplyStd(_, _)
ApplyStd(sd, events) ==
    IF events = << >> THEN sd
    ELSE LET ev == Head(events)
         IN  ApplyStd(IF ev.k = "Notice" THEN Append(sd, ev.data) ELSE sd,
                      Tail(events))

RECURSIVE SumLen(_, _)
SumLen(sk, S) ==
    IF S = {} THEN 0
    ELSE LET s == CHOOSE x \in S : TRUE
         IN  Len(sk[s]) + SumLen(sk, S \ {s})

Written == SumLen(sinks, Destinations)

Ids == 1..Len(loggers)

Op(op, via, id, level, call, events, result) ==
    [ op |-> op, via |-> via, l |-> id, level |-> level, call |-> call,
      events |-> events, result |-> result ]

NoCall == [format |-> << >>, args |-> << >>]

\* The second goroutine between calls.
\*   pc    : the next step of the call it is in ("idle" between calls)
\*   op    : the operation called, level and call its arguments
\*   l     : the Logger a method was called on (0 for a package function)
\*   line  : the line the emitter built
\*   held  : the sink whose type word rewriter.Write has loaded
\*   uses  : the Loggers the call has used, and what for, in order
\*   events: what the call did, in order
Idle ==
    [ pc |-> "idle", op |-> "none", l |-> 0, level |-> 0, call |-> NoCall,
      line |-> << >>, held |-> "nil", uses |-> << >>, events |-> << >> ]

\* ------------------------------------------------------------------- Init
\* func init() { Root = New("") }, the flag at its default.
Init ==
    /\ Verbosity = DefaultVerbosity
    /\ Root = 1
    /\ loggers = <<New(1, "")>>
    /\ cells = [id \in 1..MaxLoggers |-> 0]
    /\ sinks = [s \in Destinations |-> << >>]
    /\ std = << >>
    /\ pc = "running"
    /\ panicv = << >>
    /\ status = 0 - 1
    /\ last = Op("init", "package", 1, 0, NoCall, << >>, FALSE)
    /\ goroutine = Idle

\* ---------------------------------------------------------------- actions
\* What every call leaves behind: the sinks and the base logger after its
\* effects, and the record of the call.
Commit(o) ==
    /\ sinks' = ApplySinks(sinks, o.events)
    /\ std' = ApplyStd(std, o.events)
    /\ last' = o

\* The name write is given for a channel: l.name + " info", ...
Channel(id, sev) == <<loggers[id].name, sev>>

\* A default callback that exits with 0.
ExitStatusZero(cb) == IF cb = "osExit" THEN 0 ELSE 0 - 1

\* What invoking an exit callback does to the process: the callback New
\* installs is func() { os.Exit(1) }; a caller's closure returns.
ExitStatus(cb) == IF cb = "osExit" THEN DefaultExitStatus ELSE 0 - 1

\* The caller constructs another Logger.
CallNew(name) ==
    /\ pc = "running"
    /\ Len(loggers) < MaxLoggers
    /\ loggers' = Append(loggers, New(Len(loggers) + 1, name))
    /\ last' = Op("New", "package", Len(loggers) + 1, 0, NoCall, << >>, FALSE)
    /\ UNCHANGED <<goroutine, Verbosity, Root, cells, sinks, std, pc, panicv, status>>

\* The caller constructs a Logger for a test: NewTest(t, name, failOnError).
CallNewTest(name, failOnError) ==
    /\ pc = "running"
    /\ Len(loggers) < MaxLoggers
    /\ loggers' = Append(loggers, NewTest(Len(loggers) + 1, name, failOnError))
    /\ last' = Op("NewTest", "package", Len(loggers) + 1, 0, NoCall, << >>,
                  failOnError)
    /\ UNCHANGED <<goroutine, Verbosity, Root, cells, sinks, std, pc, panicv, status>>

\* The caller replaces the Root logger: log.Root = l.
SetRoot(id) ==
    /\ pc = "running"
    /\ id \in Ids
    /\ Root # id
    /\ Root' = id
    /\ last' = Op("SetRoot", "caller", id, 0, NoCall, << >>, FALSE)
    /\ UNCHANGED <<goroutine, Verbosity, loggers, cells, sinks, std, pc, panicv, status>>

\* The caller assigns an exported sink field: l.Info = s, ...
SetSink(id, field, s) ==
    /\ pc = "running"
    /\ id \in Ids
    /\ loggers[id][field] # s
    /\ loggers' = [loggers EXCEPT ![id][field] = s]
    /\ last' = Op("SetSink", "caller", id, 0, NoCall, << >>, FALSE)
    /\ UNCHANGED <<goroutine, Verbosity, Root, cells, sinks, std, pc, panicv, status>>

\* The caller assigns the exported Exit field.
SetExit(id, cb) ==
    /\ pc = "running"
    /\ id \in Ids
    /\ loggers[id].Exit # cb
    /\ loggers' = [loggers EXCEPT ![id].Exit = cb]
    /\ last' = Op("SetExit", "caller", id, 0, NoCall, << >>, FALSE)
    /\ UNCHANGED <<goroutine, Verbosity, Root, cells, sinks, std, pc, panicv, status>>

\* The flag is parsed, or the caller writes through it: *Verbosity = v.
SetFlag(v) ==
    /\ pc = "running"
    /\ Verbosity # v
    /\ Verbosity' = v
    /\ last' = Op("SetFlag", "caller", Root, v, NoCall, << >>, FALSE)
    /\ UNCHANGED <<goroutine, Root, loggers, cells, sinks, std, pc, panicv, status>>

\* A SetVerbosity that writes through the pointer: *l.Verbosity = v.
SetVerbosityThrough(id, v) ==
    /\ pc = "running"
    /\ id \in Ids
    /\ IF loggers[id].Verbosity = 0
       THEN Verbosity' = v /\ UNCHANGED cells
       ELSE cells' = [cells EXCEPT ![loggers[id].Verbosity] = v] /\ UNCHANGED Verbosity
    /\ last' = Op("SetVerbosity", "method", id, v, NoCall, << >>, FALSE)
    /\ UNCHANGED <<goroutine, Root, loggers, sinks, std, pc, panicv, status>>

\* (l *Logger) SetVerbosity(v): l.Verbosity = &v, a cell of its own.
SetVerbosity(id, v) ==
    /\ pc = "running"
    /\ id \in Ids
    /\ cells' = [cells EXCEPT ![id] = v]
    /\ loggers' = [loggers EXCEPT ![id].Verbosity = id]
    /\ last' = Op("SetVerbosity", "method", id, v, NoCall, << >>, FALSE)
    /\ UNCHANGED <<goroutine, Verbosity, Root, sinks, std, pc, panicv, status>>

\* A call of (l *Logger) LoudEnough(level).
CallLoudEnough(id, level) ==
    /\ pc = "running"
    /\ id \in Ids
    /\ last' = Op("LoudEnough", "method", id, level, NoCall, << >>,
                  LoudEnough(id, level))
    /\ UNCHANGED <<goroutine, Verbosity, Root, loggers, cells, sinks, std, pc, panicv, status>>

\* LoudEnough(level) of the package.
PkgLoudEnough(level) ==
    /\ pc = "running"
    /\ last' = Op("LoudEnough", "package", Root, level, NoCall, << >>,
                  LoudEnough(Root, level))
    /\ UNCHANGED <<goroutine, Verbosity, Root, loggers, cells, sinks, std, pc, panicv, status>>

\* (l *Logger) V(level, format, v...)
V(id, level, c, err) ==
    /\ pc = "running"
    /\ id \in Ids
    /\ IF LoudEnough(id, level)
       THEN /\ Written < MaxLines
            /\ Commit(Op("V", "method", id, level, c,
                         write(loggers[id].i, logDepth, Channel(id, " info"),
                               c.format, c.args, err, Stack("V")).events,
                         TRUE))
       ELSE Commit(Op("V", "method", id, level, c, << >>, FALSE))
    /\ UNCHANGED <<goroutine, Verbosity, Root, loggers, cells, pc, panicv, status>>

\* V(level, format, v...) of the package.
PkgV(level, c, err) ==
    /\ pc = "running"
    /\ IF LoudEnough(Root, level)
       THEN /\ Written < MaxLines
            /\ Commit(Op("V", "package", Root, level, c,
                         write(loggers[Root].i, rootDepth, Channel(Root, " info"),
                               c.format, c.args, err, Stack("V")).events,
                         TRUE))
       ELSE Commit(Op("V", "package", Root, level, c, << >>, FALSE))
    /\ UNCHANGED <<goroutine, Verbosity, Root, loggers, cells, pc, panicv, status>>

\* (l *Logger) Infof(format, v...)
Infof(id, c, err) ==
    /\ pc = "running"
    /\ id \in Ids
    /\ Written < MaxLines
    /\ Commit(Op("Infof", "method", id, 0, c,
                 write(loggers[id].i, logDepth, Channel(id, " info"),
                       c.format, c.args, err, Stack("Infof")).events,
                 FALSE))
    /\ UNCHANGED <<goroutine, Verbosity, Root, loggers, cells, pc, panicv, status>>

\* Infof(format, v...) of the package.
PkgInfof(c, err) ==
    /\ pc = "running"
    /\ Written < MaxLines
    /\ Commit(Op("Infof", "package", Root, 0, c,
                 write(loggers[Root].i, rootDepth, Channel(Root, " info"),
                       c.format, c.args, err, Stack("Infof")).events,
                 FALSE))
    /\ UNCHANGED <<goroutine, Verbosity, Root, loggers, cells, pc, panicv, status>>

\* (l *Logger) Printf(format, v...)
Printf(id, c, err) ==
    /\ pc = "running"
    /\ id \in Ids
    /\ Written < MaxLines
    /\ Commit(Op("Printf", "method", id, 0, c,
                 write(loggers[id].i, logDepth, Channel(id, " info"),
                       c.format, c.args, err, Stack("Printf")).events,
                 FALSE))
    /\ UNCHANGED <<goroutine, Verbosity, Root, loggers, cells, pc, panicv, status>>

\* Printf(format, v...) of the package.
PkgPrintf(c, err) ==
    /\ pc = "running"
    /\ Written < MaxLines
    /\ Commit(Op("Printf", "package", Root, 0, c,
                 write(loggers[Root].i, rootDepth, Channel(Root, " info"),
                       c.format, c.args, err, Stack("Printf")).events,
                 FALSE))
    /\ UNCHANGED <<goroutine, Verbosity, Root, loggers, cells, pc, panicv, status>>

\* (l *Logger) Warnf(format, v...)
Warnf(id, c, err) ==
    /\ pc = "running"
    /\ id \in Ids
    /\ Written < MaxLines
    /\ Commit(Op("Warnf", "method", id, 0, c,
                 write(loggers[id].w, logDepth, Channel(id, " warn"),
                       c.format, c.args, err, Stack("Warnf")).events,
                 FALSE))
    /\ UNCHANGED <<goroutine, Verbosity, Root, loggers, cells, pc, panicv, status>>

\* A package Warnf that forwards to Root.Warnf: one more frame lies between
\* the emitter and the caller, and the method passes its own depth.
PkgWarnfForwarding(c, err) ==
    /\ pc = "running"
    /\ Written < MaxLines
    /\ Commit(Op("Warnf", "package", Root, 0, c,
                 write(loggers[Root].w, logDepth, Channel(Root, " warn"),
                       c.format, c.args, err,
                       <<"log.Output", "write", "Warnf", "Warnf", "caller">>).events,
                 FALSE))
    /\ UNCHANGED <<goroutine, Verbosity, Root, loggers, cells, pc, panicv, status>>

\* Warnf(format, v...) of the package.
PkgWarnf(c, err) ==
    /\ pc = "running"
    /\ Written < MaxLines
    /\ Commit(Op("Warnf", "package", Root, 0, c,
                 write(loggers[Root].w, rootDepth, Channel(Root, " warn"),
                       c.format, c.args, err, Stack("Warnf")).events,
                 FALSE))
    /\ UNCHANGED <<goroutine, Verbosity, Root, loggers, cells, pc, panicv, status>>

\* An Errorf that goes on to the exit callback, as Fatalf does.
ErrorfExits(id, c, err) ==
    /\ pc = "running"
    /\ id \in Ids
    /\ Written < MaxLines
    /\ LET r  == write(loggers[id].e, logDepth, Channel(id, " error"),
                       c.format, c.args, err, Stack("Errorf"))
           cb == loggers[id].Exit
       IN  /\ Commit(Op("Errorf", "method", id, 0, c,
                        r.events \o (IF cb # "nil"
                                     THEN <<Event("Exit", cb, << >>, "nil")>>
                                     ELSE << >>),
                        FALSE))
           /\ IF cb # "nil" /\ ExitStatus(cb) >= 0
              THEN pc' = "exited" /\ status' = ExitStatus(cb)
              ELSE UNCHANGED <<pc, status>>
    /\ UNCHANGED <<goroutine, Verbosity, Root, loggers, cells, panicv>>

\* (l *Logger) Errorf(format, v...)
Errorf(id, c, err) ==
    /\ pc = "running"
    /\ id \in Ids
    /\ Written < MaxLines
    /\ Commit(Op("Errorf", "method", id, 0, c,
                 write(loggers[id].e, logDepth, Channel(id, " error"),
                       c.format, c.args, err, Stack("Errorf")).events,
                 FALSE))
    /\ UNCHANGED <<goroutine, Verbosity, Root, loggers, cells, pc, panicv, status>>

\* Errorf(format, v...) of the package.
PkgErrorf(c, err) ==
    /\ pc = "running"
    /\ Written < MaxLines
    /\ Commit(Op("Errorf", "package", Root, 0, c,
                 write(loggers[Root].e, rootDepth, Channel(Root, " error"),
                       c.format, c.args, err, Stack("Errorf")).events,
                 FALSE))
    /\ UNCHANGED <<goroutine, Verbosity, Root, loggers, cells, pc, panicv, status>>

\* A Panicf that panics without having written.
PanicfUnwritten(id, c, err) ==
    /\ pc = "running"
    /\ id \in Ids
    /\ Written < MaxLines
    /\ Commit(Op("Panicf", "method", id, 0, c,
                 <<Event("Panic", "caller", Sprintf(c.format, c.args), "nil")>>,
                 FALSE))
    /\ panicv' = Sprintf(c.format, c.args)
    /\ pc' = "panicking"
    /\ UNCHANGED <<goroutine, Verbosity, Root, loggers, cells, status>>

\* (l *Logger) Panicf(format, v...): panic(errors.New(write(...))); the
\* argument of panic is evaluated, so write has returned, before the panic.
Panicf(id, c, err) ==
    /\ pc = "running"
    /\ id \in Ids
    /\ Written < MaxLines
    /\ LET r == write(loggers[id].e, logDepth, Channel(id, " error"),
                      c.format, c.args, err, Stack("Panicf"))
       IN  /\ Commit(Op("Panicf", "method", id, 0, c,
                        r.events \o <<Event("Panic", "caller", r.msg, "nil")>>,
                        FALSE))
           /\ panicv' = r.msg
    /\ pc' = "panicking"
    /\ UNCHANGED <<goroutine, Verbosity, Root, loggers, cells, status>>

\* Panicf(format, v...) of the package.
PkgPanicf(c, err) ==
    /\ pc = "running"
    /\ Written < MaxLines
    /\ LET r == write(loggers[Root].e, rootDepth, Channel(Root, " error"),
                      c.format, c.args, err, Stack("Panicf"))
       IN  /\ Commit(Op("Panicf", "package", Root, 0, c,
                        r.events \o <<Event("Panic", "caller", r.msg, "nil")>>,
                        FALSE))
           /\ panicv' = r.msg
    /\ pc' = "panicking"
    /\ UNCHANGED <<goroutine, Verbosity, Root, loggers, cells, status>>

\* A Fatalf that invokes the callback before it writes.
FatalfExitFirst(id, c, err) ==
    /\ pc = "running"
    /\ id \in Ids
    /\ Written < MaxLines
    /\ LET r  == write(loggers[id].f, logDepth, Channel(id, " fatal"),
                       c.format, c.args, err, Stack("Fatalf"))
           cb == loggers[id].Exit
       IN  /\ Commit(Op("Fatalf", "method", id, 0, c,
                        (IF cb # "nil"
                         THEN <<Event("Exit", cb, << >>, "nil")>>
                         ELSE << >>) \o r.events,
                        FALSE))
           /\ IF cb # "nil" /\ ExitStatus(cb) >= 0
              THEN pc' = "exited" /\ status' = ExitStatus(cb)
              ELSE UNCHANGED <<pc, status>>
    /\ UNCHANGED <<goroutine, Verbosity, Root, loggers, cells, panicv>>

\* (l *Logger) Fatalf(format, v...): write, then l.Exit() unless it is nil.
Fatalf(id, c, err) ==
    /\ pc = "running"
    /\ id \in Ids
    /\ Written < MaxLines
    /\ LET r  == write(loggers[id].f, logDepth, Channel(id, " fatal"),
                       c.format, c.args, err, Stack("Fatalf"))
           cb == loggers[id].Exit
       IN  /\ Commit(Op("Fatalf", "method", id, 0, c,
                        r.events \o (IF cb # "nil"
                                     THEN <<Event("Exit", cb, << >>, "nil")>>
                                     ELSE << >>),
                        FALSE))
           /\ IF cb # "nil" /\ ExitStatus(cb) >= 0
              THEN pc' = "exited" /\ status' = ExitStatus(cb)
              ELSE UNCHANGED <<pc, status>>
    /\ UNCHANGED <<goroutine, Verbosity, Root, loggers, cells, panicv>>

\* A package Fatalf that keeps using the Logger init built.
PkgFatalfFirst(c, err) ==
    /\ pc = "running"
    /\ Written < MaxLines
    /\ LET r  == write(loggers[1].f, rootDepth, Channel(1, " fatal"),
                       c.format, c.args, err, Stack("Fatalf"))
           cb == loggers[1].Exit
       IN  /\ Commit(Op("Fatalf", "package", Root, 0, c,
                        r.events \o (IF cb # "nil"
                                     THEN <<Event("Exit", cb, << >>, "nil")>>
                                     ELSE << >>),
                        FALSE))
           /\ IF cb # "nil" /\ ExitStatus(cb) >= 0
              THEN pc' = "exited" /\ status' = ExitStatus(cb)
              ELSE UNCHANGED <<pc, status>>
    /\ UNCHANGED <<goroutine, Verbosity, Root, loggers, cells, panicv>>

\* Fatalf(format, v...) of the package.
PkgFatalf(c, err) ==
    /\ pc = "running"
    /\ Written < MaxLines
    /\ LET r  == write(loggers[Root].f, rootDepth, Channel(Root, " fatal"),
                       c.format, c.args, err, Stack("Fatalf"))
           cb == loggers[Root].Exit
       IN  /\ Commit(Op("Fatalf", "package", Root, 0, c,
                        r.events \o (IF cb # "nil"
                                     THEN <<Event("Exit", cb, << >>, "nil")>>
                                     ELSE << >>),
                        FALSE))
           /\ IF cb # "nil" /\ ExitStatus(cb) >= 0
              THEN pc' = "exited" /\ status' = ExitStatus(cb)
              ELSE UNCHANGED <<pc, status>>
    /\ UNCHANGED <<goroutine, Verbosity, Root, loggers, cells, panicv>>

\* The caller's deferred recover() takes the panic: the goroutine runs on.
Recover ==
    /\ pc = "panicking"
    /\ pc' = "running"
    /\ panicv' = << >>
    /\ last' = Op("recover", "caller", last.l, 0, NoCall, << >>, FALSE)
    /\ UNCHANGED <<goroutine, Verbosity, Root, loggers, cells, sinks, std, status>>

\* Nobody recovers: the panic ends the process (the Go runtime exits with 2).
Crash ==
    /\ pc = "panicking"
    /\ pc' = "exited"
    /\ status' = 2
    /\ UNCHANGED <<goroutine, Verbosity, Root, loggers, cells, sinks, std, panicv, last>>

\* ------------------------------------------------- the second goroutine
\* The dynamic type of a sink value: os.Stderr is a *os.File, the buffers of
\* the tests are *bytes.Buffer.
TypeOf(s) == IF s = "os.Stderr" THEN "*os.File" ELSE "*bytes.Buffer"

\* What a call through an interface value whose type word and data word come
\* from two different assignments can do: the method of one type runs on the
\* memory of the other, so the line reaches no sink and the Write reports a
\* failure, or the process dies on a fault.
TornOutcomes == {"lost", "crash"}

\* The second goroutine calls l.Infof(format, v...): the emitter has built the
\* line and is about to hand it to its rewriter.
GoInfof(id, c) ==
    /\ pc = "running"
    /\ id \in Ids
    /\ goroutine.pc = "idle"
    /\ ~IsTestWriter(loggers[id].i.out)
    /\ Written + Len(std) < MaxLines
    /\ goroutine' = [Idle EXCEPT
                       !.pc   = "type",
                       !.op   = "Infof",
                       !.l    = id,
                       !.call = c,
                       !.line = OutputLine(loggers[id].i, logDepth,
                                           Sprintf(c.format, c.args),
                                           Stack("Infof"))]
    /\ UNCHANGED <<Verbosity, Root, loggers, cells, sinks, std, pc, panicv,
                   status, last>>

\* rewriter.Write loads the first word of *w.w, the type of the sink.
GoLoadType ==
    /\ pc = "running"
    /\ goroutine.pc = "type"
    /\ goroutine' = [goroutine EXCEPT
                       !.pc   = "data",
                       !.held = rewriterWrite(loggers[goroutine.l].i.out)]
    /\ UNCHANGED <<Verbosity, Root, loggers, cells, sinks, std, pc, panicv,
                   status, last>>

\* rewriter.Write loads the second word of *w.w, the data of the sink, and
\* calls Write on what it loaded.  When both words are of one type the sink
\* the data word names receives the line and returns err; otherwise the call
\* does one of the things a torn value can do.
GoLoadData(err, outcome) ==
    /\ pc = "running"
    /\ goroutine.pc = "data"
    /\ LET em   == loggers[goroutine.l].i
           to   == rewriterWrite(em.out)
           torn == TypeOf(goroutine.held) # TypeOf(to)
           msg  == Sprintf(goroutine.call.format, goroutine.call.args)
           out  == IF torn
                   THEN Event("Torn", goroutine.held, goroutine.line, "EFAULT")
                   ELSE Event("Write", to, goroutine.line, err)
           evs  == IF torn /\ outcome = "crash" THEN <<out>>
                   ELSE IF out.err # "nil"
                   THEN <<out, Event("Notice", "std",
                                     Sprintf(NoticeFormat,
                                             <<Channel(goroutine.l, " info"),
                                               <<out.err>>, msg>>),
                                     "nil")>>
                   ELSE <<out>>
       IN  /\ goroutine' = [goroutine EXCEPT !.pc = "idle", !.events = evs]
           /\ sinks' = ApplySinks(sinks, evs)
           /\ std' = ApplyStd(std, evs)
           /\ IF torn /\ outcome = "crash"
              THEN pc' = "exited" /\ status' = 2
              ELSE UNCHANGED <<pc, status>>
    /\ UNCHANGED <<Verbosity, Root, loggers, cells, panicv, last>>

\* A load of the package variable Root by the second goroutine.  Root is one
\* word, read without synchronization: the load yields the Logger Root points
\* to now, or, where the build kept the pointer of the load before it in a
\* register, the Logger that load yielded.
LoadRoot(fresh) ==
    IF fresh \/ goroutine.uses = << >>
    THEN Root
    ELSE goroutine.uses[Len(goroutine.uses)].l

\* One use of a Logger by a package-level call.
Use(what, id) == [use |-> what, l |-> id]

\* The Logger the call in progress took for `what`.
UsedFor(g, what) ==
    LET k == CHOOSE j \in DOMAIN g.uses : g.uses[j].use = what
    IN  g.uses[k].l

\* The emitter a package-level operation writes through, and its tag.
EmitterOf(id, op) == IF op = "Fatalf" THEN loggers[id].f ELSE loggers[id].i

SeverityOf(op) == IF op = "Fatalf" THEN " fatal" ELSE " info"

\* V(level, format, v...) of the package, first step: Root.LoudEnough(level).
GoPkgV(level, c) ==
    /\ pc = "running"
    /\ goroutine.pc = "idle"
    /\ Written < MaxLines
    /\ goroutine' = [Idle EXCEPT
                       !.pc    = IF LoudEnough(Root, level)
                                 THEN "emitter" ELSE "idle",
                       !.op    = "V",
                       !.level = level,
                       !.call  = c,
                       !.uses  = <<Use("gate", Root)>>]
    /\ UNCHANGED <<Verbosity, Root, loggers, cells, sinks, std, pc, panicv,
                   status, last>>

\* Fatalf(format, v...) of the package is entered.
GoPkgFatalf(c) ==
    /\ pc = "running"
    /\ goroutine.pc = "idle"
    /\ Written < MaxLines
    /\ goroutine' = [Idle EXCEPT !.pc = "emitter", !.op = "Fatalf", !.call = c]
    /\ UNCHANGED <<Verbosity, Root, loggers, cells, sinks, std, pc, panicv,
                   status, last>>

\* An emitter load that uses the Logger the package began with.
GoEmitterFirst(fresh) ==
    /\ pc = "running"
    /\ goroutine.pc = "emitter"
    /\ goroutine' = [goroutine EXCEPT
                       !.pc   = "name",
                       !.uses = Append(@, Use("emitter", 1))]
    /\ UNCHANGED <<Verbosity, Root, loggers, cells, sinks, std, pc, panicv,
                   status, last>>

\* The first argument of write is evaluated: Root.i, Root.f.
GoEmitter(fresh) ==
    /\ pc = "running"
    /\ goroutine.pc = "emitter"
    /\ goroutine' = [goroutine EXCEPT
                       !.pc   = "name",
                       !.uses = Append(@, Use("emitter", LoadRoot(fresh)))]
    /\ UNCHANGED <<Verbosity, Root, loggers, cells, sinks, std, pc, panicv,
                   status, last>>

\* The channel name is evaluated, Root.name + " info", and write runs.
GoWrite(fresh, err) ==
    /\ pc = "running"
    /\ goroutine.pc = "name"
    /\ LET n == LoadRoot(fresh)
           r == write(EmitterOf(UsedFor(goroutine, "emitter"), goroutine.op),
                      rootDepth, Channel(n, SeverityOf(goroutine.op)),
                      goroutine.call.format, goroutine.call.args, err,
                      Stack(goroutine.op))
       IN  /\ goroutine' = [goroutine EXCEPT
                              !.pc     = IF goroutine.op = "Fatalf"
                                         THEN "check" ELSE "idle",
                              !.uses   = Append(@, Use("name", n)),
                              !.events = r.events]
           /\ sinks' = ApplySinks(sinks, r.events)
           /\ std' = ApplyStd(std, r.events)
    /\ UNCHANGED <<Verbosity, Root, loggers, cells, pc, panicv, status, last>>

\* Fatalf tests the callback: if Root.Exit != nil.
GoCheck(fresh) ==
    /\ pc = "running"
    /\ goroutine.pc = "check"
    /\ LET x == LoadRoot(fresh)
       IN  goroutine' = [goroutine EXCEPT
                           !.pc   = IF loggers[x].Exit # "nil"
                                    THEN "exit" ELSE "idle",
                           !.uses = Append(@, Use("check", x))]
    /\ UNCHANGED <<Verbosity, Root, loggers, cells, sinks, std, pc, panicv,
                   status, last>>

\* Fatalf invokes the callback: Root.Exit().  Calling a nil func panics, and
\* nothing in the package recovers.
GoExit(fresh) ==
    /\ pc = "running"
    /\ goroutine.pc = "exit"
    /\ LET x  == LoadRoot(fresh)
           cb == loggers[x].Exit
       IN  /\ goroutine' = [goroutine EXCEPT
                              !.pc     = "idle",
                              !.uses   = Append(@, Use("exit", x)),
                              !.events = Append(@, Event("Exit", cb, << >>,
                                                         "nil"))]
           /\ IF cb = "nil"
              THEN pc' = "exited" /\ status' = 2
              ELSE IF ExitStatus(cb) >= 0
              THEN pc' = "exited" /\ status' = ExitStatus(cb)
              ELSE UNCHANGED <<pc, status>>
    /\ UNCHANGED <<Verbosity, Root, loggers, cells, sinks, std, panicv, last>>

\* ---------------------------------------------------------- specifications
\* The buffer a test binds to a field (il, wl, el, fl of log_test.go).
Buffer(field) ==
    CASE field = "Info"  -> "il"
      [] field = "Warn"  -> "wl"
      [] field = "Error" -> "el"
      [] field = "Fatal" -> "fl"

LoggerIds == 1..MaxLoggers

\* Redirection and routing: Root's sink fields are bound to the standard error
\* stream or to the field's buffer, and every severity operation is called;
\* every Write succeeds.
Next ==
    \/ \E id \in LoggerIds, field \in Fields :
          \E s \in {"os.Stderr", Buffer(field)} : SetSink(id, field, s)
    \/ \E id \in LoggerIds, level \in Levels, c \in Calls : V(id, level, c, "nil")
    \/ \E level \in Levels, c \in Calls : PkgV(level, c, "nil")
    \/ \E id \in LoggerIds, c \in Calls : Infof(id, c, "nil")
    \/ \E c \in Calls : PkgInfof(c, "nil")
    \/ \E id \in LoggerIds, c \in Calls : Printf(id, c, "nil")
    \/ \E c \in Calls : PkgPrintf(c, "nil")
    \/ \E id \in LoggerIds, c \in Calls : Warnf(id, c, "nil")
    \/ \E c \in Calls : PkgWarnf(c, "nil")
    \/ \E id \in LoggerIds, c \in Calls : Errorf(id, c, "nil")
    \/ \E c \in Calls : PkgErrorf(c, "nil")
    \/ \E id \in LoggerIds, c \in Calls : Panicf(id, c, "nil")
    \/ \E c \in Calls : PkgPanicf(c, "nil")
    \/ \E id \in LoggerIds, c \in Calls : Fatalf(id, c, "nil")
    \/ \E c \in Calls : PkgFatalf(c, "nil")
    \/ Recover
    \/ Crash

Spec == Init /\ [][Next]_vars

\* Redirection among Loggers: Loggers of the same name are built, the sink
\* fields of each are bound, and each writes information lines.
NextFrame ==
    \/ CallNew("")
    \/ \E id \in LoggerIds, field \in Fields :
          \E s \in {"os.Stderr", Buffer(field)} : SetSink(id, field, s)
    \/ \E id \in LoggerIds : Infof(id, TestCall, "nil")

SpecFrame == Init /\ [][NextFrame]_vars

\* Loggers for tests: Loggers are built over the harness, and the severity
\* operations are called on them and on Root.
NextTest ==
    \/ \E b \in BOOLEAN : CallNewTest("a", b)
    \/ \E id \in LoggerIds, level \in Levels : V(id, level, TestCall, "nil")
    \/ \E id \in LoggerIds : Infof(id, TestCall, "nil")
    \/ \E id \in LoggerIds : Printf(id, TestCall, "nil")
    \/ \E id \in LoggerIds : Warnf(id, TestCall, "nil")
    \/ \E id \in LoggerIds, err \in Errs : Errorf(id, TestCall, err)
    \/ \E id \in LoggerIds, err \in Errs : Fatalf(id, TestCall, err)

SpecTest == Init /\ [][NextTest]_vars

\* Replacing Root: Loggers for tests are built, one of the Loggers is made
\* Root, private thresholds are set, and the functions of the package are
\* called.
NextRoot ==
    \/ CallNewTest("a", FALSE)
    \/ \E id \in LoggerIds : SetRoot(id)
    \/ \E id \in LoggerIds : SetVerbosity(id, 1)
    \/ \E level \in Levels : PkgLoudEnough(level)
    \/ \E level \in Levels : PkgV(level, TestCall, "nil")
    \/ PkgInfof(TestCall, "nil")
    \/ PkgPrintf(TestCall, "nil")
    \/ PkgWarnf(TestCall, "nil")
    \/ PkgErrorf(TestCall, "nil")
    \/ PkgPanicf(TestCall, "nil")
    \/ \E err \in Errs : PkgFatalf(TestCall, err)
    \/ Recover
    \/ Crash

SpecRoot == Init /\ [][NextRoot]_vars

\* The files of the README's redirection: i, w and e.
File(field) ==
    CASE field = "Info"  -> "il"
      [] field = "Warn"  -> "wl"
      [] field = "Error" -> "el"
      [] field = "Fatal" -> "os.Stderr"

\* The field whose sink the README's redirection of a field builds on.
Below(field) ==
    CASE field = "Warn"  -> "Info"
      [] field = "Error" -> "Warn"
      [] field = "Fatal" -> "Error"

\* Cumulative redirection: the assignments of the README's init, in any order
\* and any number of times, and the severity operations on Root; a sink's
\* Write succeeds or fails.
NextFan ==
    \/ SetSink(Root, "Info", File("Info"))
    \/ \E field \in Fields \ {"Info"} :
          SetSink(Root, field,
                  MultiWriter(<<loggers[Root][Below(field)], File(field)>>))
    \/ \E err \in Errs : Infof(Root, TestCall, err)
    \/ \E err \in Errs : Warnf(Root, TestCall, err)
    \/ \E err \in Errs : Errorf(Root, TestCall, err)
    \/ \E err \in Errs : Fatalf(Root, TestCall, err)

SpecFan == Init /\ [][NextFan]_vars

\* Sink fields of Loggers for tests: Loggers are built over the harness, the
\* sink fields of the Loggers other than Root are assigned, and the Loggers
\* write.
NextField ==
    \/ CallNewTest("a", TRUE)
    \/ \E id \in LoggerIds \ {Root}, field \in Fields :
          SetSink(id, field, Buffer(field))
    \/ \E id \in LoggerIds : Infof(id, TestCall, "nil")
    \/ \E id \in LoggerIds : Errorf(id, TestCall, "nil")
    \/ \E id \in LoggerIds : Fatalf(id, TestCall, "nil")

SpecField == Init /\ [][NextField]_vars

\* The verbosity gate: the flag and the private cells change, Loggers are
\* built, and the gate is asked and used.
NextGate ==
    \/ CallNew("a")
    \/ \E v \in Levels : SetFlag(v)
    \/ \E id \in LoggerIds, v \in Levels : SetVerbosity(id, v)
    \/ \E id \in LoggerIds, level \in Levels : CallLoudEnough(id, level)
    \/ \E level \in Levels : PkgLoudEnough(level)
    \/ \E id \in LoggerIds, level \in Levels : V(id, level, TestCall, "nil")
    \/ \E level \in Levels : PkgV(level, TestCall, "nil")

SpecGate == Init /\ [][NextGate]_vars

\* Consequences and failures: Root's exit callback is replaced, every severity
\* operation is called, and a sink's Write succeeds or fails.
NextCtl ==
    \/ \E id \in LoggerIds, cb \in Callbacks : SetExit(id, cb)
    \/ \E id \in LoggerIds, level \in Levels, c \in Calls, err \in Errs :
          V(id, level, c, err)
    \/ \E level \in Levels, c \in Calls, err \in Errs : PkgV(level, c, err)
    \/ \E id \in LoggerIds, c \in Calls, err \in Errs : Infof(id, c, err)
    \/ \E c \in Calls, err \in Errs : PkgInfof(c, err)
    \/ \E id \in LoggerIds, c \in Calls, err \in Errs : Printf(id, c, err)
    \/ \E c \in Calls, err \in Errs : PkgPrintf(c, err)
    \/ \E id \in LoggerIds, c \in Calls, err \in Errs : Warnf(id, c, err)
    \/ \E c \in Calls, err \in Errs : PkgWarnf(c, err)
    \/ \E id \in LoggerIds, c \in Calls, err \in Errs : Errorf(id, c, err)
    \/ \E c \in Calls, err \in Errs : PkgErrorf(c, err)
    \/ \E id \in LoggerIds, c \in Calls, err \in Errs : Panicf(id, c, err)
    \/ \E c \in Calls, err \in Errs : PkgPanicf(c, err)
    \/ \E id \in LoggerIds, c \in Calls, err \in Errs : Fatalf(id, c, err)
    \/ \E c \in Calls, err \in Errs : PkgFatalf(c, err)
    \/ Recover
    \/ Crash

SpecCtl == Init /\ [][NextCtl]_vars

\* A sink reassigned while another goroutine emits: the caller rebinds Root's
\* informational sink among the standard error stream and two buffers while
\* the second goroutine is inside Infof.
NextRace ==
    \/ \E s \in {"os.Stderr", "il", "wl"} : SetSink(Root, "Info", s)
    \/ GoInfof(Root, TestCall)
    \/ GoLoadType
    \/ \E err \in Errs, outcome \in TornOutcomes : GoLoadData(err, outcome)

SpecRace == Init /\ [][NextRace]_vars

\* Root replaced while another goroutine is inside a package-level call: the
\* caller builds a Logger for a test, sets thresholds and rebinds Root while
\* the second goroutine runs V and Fatalf of the package step by step.
NextSwap ==
    \/ CallNewTest("a", FALSE)
    \/ \E id \in LoggerIds : SetRoot(id)
    \/ \E id \in LoggerIds : SetVerbosity(id, 1)
    \/ \E level \in Levels : GoPkgV(level, TestCall)
    \/ GoPkgFatalf(TestCall)
    \/ \E fresh \in BOOLEAN : GoEmitter(fresh)
    \/ \E fresh \in BOOLEAN, err \in Errs : GoWrite(fresh, err)
    \/ \E fresh \in BOOLEAN : GoCheck(fresh)
    \/ \E fresh \in BOOLEAN : GoExit(fresh)

SpecSwap == Init /\ [][NextSwap]_vars

\* ------------------------------------------------------ stating the claims
WriteOps == {"V", "Infof", "Printf", "Warnf", "Errorf", "Panicf", "Fatalf"}

\* The sink field a severity operation writes through, and the field's tag.
FieldOf(op) ==
    CASE op \in {"V", "Infof", "Printf"} -> "Info"
      [] op = "Warnf"                    -> "Warn"
      [] op \in {"Errorf", "Panicf"}     -> "Error"
      [] op = "Fatalf"                   -> "Fatal"

TagOf(field) ==
    CASE field = "Info"  -> "I"
      [] field = "Warn"  -> "W"
      [] field = "Error" -> "E"
      [] field = "Fatal" -> "F"

\* The text a call is expected to produce (the tests match "Test message").
Formatted(c) == IF c = TestCall THEN <<"Test ", "message">> ELSE c.format

IsPrefix(a, b) == Len(a) <= Len(b) /\ SubSeq(b, 1, Len(a)) = a

IsInfix(a, b) ==
    \E k \in 0..(Len(b) - Len(a)) : SubSeq(b, k + 1, k + Len(a)) = a

\* In this step sink d received exactly one more Write, and no other sink any.
OneWriteTo(d) ==
    /\ Len(sinks'[d]) = Len(sinks[d]) + 1
    /\ IsPrefix(sinks[d], sinks'[d])
    /\ \A s \in Sinks \ {d} : sinks'[s] = sinks[s]

\* What sink d received last.
Newest(sk, d) == sk[d][Len(sk[d])]

\* C1: LoudEnough(L) is true exactly when L <= the Logger's threshold; V(L, ...)
\* makes exactly one Write, of an I line, to the Logger's Info sink when L <= the
\* threshold and none to any sink otherwise; the package's V and LoudEnough do
\* so with Root's threshold.
C1_VerbosityGate ==
    [][ pc = "running" =>
          /\ last'.op = "LoudEnough" =>
                last'.result = (last'.level <= Threshold(last'.l))
          /\ last'.op = "V" =>
                IF last'.level <= Threshold(last'.l)
                THEN /\ OneWriteTo(loggers[last'.l].Info)
                     /\ Newest(sinks', loggers[last'.l].Info).line[1] = "I"
                ELSE sinks' = sinks
          /\ (last'.op \in {"LoudEnough", "V"} /\ last'.via = "package") =>
                last'.l = Root
      ]_vars

\* C1's case: the threshold was raised to 1 and the package's V(1, ...) wrote.
C1_Witness ==
    /\ last.op = "V" /\ last.via = "package" /\ last.level = 1
    /\ Threshold(Root) = 1
    /\ Len(sinks[loggers[Root].Info]) > 0

\* C10: a Logger that has not called SetVerbosity has the flag's value as its
\* threshold, whatever the flag becomes; l.SetVerbosity(v) makes l's threshold v,
\* changes neither the flag nor any other Logger's threshold, and from then on
\* a change of the flag does not change l's threshold.
C10_PrivateCell ==
    [][ /\ \A id \in Ids :
              (loggers[id].Verbosity = 0 /\ loggers'[id].Verbosity = 0) =>
                  \A level \in Levels :
                      LoudEnough(id, level)' = (level <= Verbosity')
        /\ (pc = "running" /\ last'.op = "SetVerbosity") =>
              /\ Verbosity' = Verbosity
              /\ \A id \in Ids :
                    Threshold(id)' = IF id = last'.l THEN last'.level
                                                   ELSE Threshold(id)
        /\ (pc = "running" /\ last'.op = "SetFlag") =>
              \A id \in Ids :
                  loggers[id].Verbosity # 0 =>
                      /\ Threshold(id)' = Threshold(id)
                      /\ \A level \in Levels :
                            LoudEnough(id, level)' = LoudEnough(id, level)
      ]_vars

\* C10's case: one Logger has a private cell, another still shares the flag,
\* and the flag has just been changed away from the private cell's value.
C10_Witness ==
    /\ Len(loggers) = 2
    /\ last.op = "SetFlag"
    /\ loggers[1].Verbosity # 0 /\ loggers[2].Verbosity = 0
    /\ Threshold(1) # Verbosity /\ Threshold(2) = Verbosity

\* The sink the emitter of (Logger id, field) delivers to.
Emitter(id, field) ==
    CASE field = "Info"  -> loggers[id].i
      [] field = "Warn"  -> loggers[id].w
      [] field = "Error" -> loggers[id].e
      [] field = "Fatal" -> loggers[id].f

Dest(id, field) == rewriterWrite(Emitter(id, field).out)

\* The four sink fields of Logger id hold four different sinks.
FourDistinct(id) == Cardinality({loggers[id][f] : f \in Fields}) = 4

\* C2: one call of Infof, Printf or a loud-enough V makes exactly one Write, to
\* the sink bound to Info; Warnf to the sink bound to Warn; Errorf and Panicf to
\* the sink bound to Error; Fatalf to the sink bound to Fatal; no other sink
\* receives anything (so, with four distinct sinks bound, the other three receive
\* nothing); the line begins with the severity's tag and contains the message.
C2_OwnChannelOnly ==
    [][ (pc = "running" /\ last'.op \in WriteOps /\ last'.events # << >>) =>
          LET d == loggers[last'.l][FieldOf(last'.op)]
          IN  /\ OneWriteTo(d)
              /\ Newest(sinks', d).line[1] = TagOf(FieldOf(last'.op))
              /\ IsInfix(Formatted(last'.call), Newest(sinks', d).line)
              /\ FourDistinct(last'.l) =>
                    \A f \in Fields \ {FieldOf(last'.op)} :
                        sinks'[loggers[last'.l][f]] = sinks[loggers[last'.l][f]]
      ]_vars

\* C2's case: four distinct sinks are bound, Errorf has just been called, the
\* Error sink holds its E line and the other three sinks hold nothing.
C2_Witness ==
    /\ FourDistinct(Root)
    /\ last.op = "Errorf" /\ last.l = Root
    /\ Len(sinks[loggers[Root].Error]) = 1
    /\ sinks[loggers[Root].Error][1].line[1] = "E"
    /\ \A f \in Fields \ {"Error"} : sinks[loggers[Root][f]] = << >>

\* C3: every Write of a severity operation goes to the sink its field holds at
\* the time of the call, whatever the field held before, and no step removes or
\* alters what a sink has already received.
C3_RebindNextWrite ==
    [][ /\ \A s \in Sinks : IsPrefix(sinks[s], sinks'[s])
        /\ (pc = "running" /\ last'.op \in WriteOps /\ last'.events # << >>) =>
              /\ last'.events[1].k = "Write"
              /\ last'.events[1].to = loggers[last'.l][FieldOf(last'.op)]
              /\ OneWriteTo(loggers[last'.l][FieldOf(last'.op)])
      ]_vars

\* C3's case: an E line went to the standard error stream, Error was then bound
\* to el, and the next E line went to el; the first line is still where it was.
C3_Witness ==
    /\ last.op = "Errorf" /\ last.l = Root
    /\ loggers[Root].Error = "el"
    /\ Len(sinks["os.Stderr"]) = 1 /\ sinks["os.Stderr"][1].line[1] = "E"
    /\ Len(sinks["el"]) = 1 /\ sinks["el"][1].line[1] = "E"

\* C4: a step that changes the sink bound to one (Logger, severity) changes no
\* other binding, of that Logger or of any other, and leaves the sink every
\* other (Logger, severity) delivers to as it was.
C4_RebindFrame ==
    [][ \A id \in Ids, f \in Fields :
          loggers'[id][f] # loggers[id][f] =>
              /\ Dest(id, f)' = loggers'[id][f]
              /\ \A id2 \in Ids, f2 \in Fields :
                    <<id2, f2>> # <<id, f>> =>
                        /\ loggers'[id2][f2] = loggers[id2][f2]
                        /\ Dest(id2, f2)' = Dest(id2, f2)
      ]_vars

\* C4's case: two Loggers of the same name, the first with Info rebound and the
\* second, whose Warn has just been rebound, with Info still on standard error.
C4_Witness ==
    /\ Len(loggers) = 2
    /\ loggers[1].name = loggers[2].name
    /\ last.op = "SetSink" /\ last.l = 2
    /\ loggers[1].Info = "il" /\ loggers[2].Info = "os.Stderr"
    /\ loggers[2].Warn = "wl" /\ loggers[1].Warn = "os.Stderr"

SevWord(field) ==
    CASE field = "Info"  -> " info"
      [] field = "Warn"  -> " warn"
      [] field = "Error" -> " error"
      [] field = "Fatal" -> " fatal"

\* How many of the events are of kind k.
Count(events, k) == Cardinality({n \in DOMAIN events : events[n].k = k})

\* The first event is the one Write of the call: a line with the tag of the
\* operation's severity and the call's message, to the sink bound to it.
WritesItsLineFirst ==
    LET ev == last.events
        f  == FieldOf(last.op)
    IN  /\ Len(ev) >= 1
        /\ Count(ev, "Write") = 1
        /\ ev[1].k = "Write"
        /\ ev[1].to = loggers[last.l][f]
        /\ ev[1].data[1] = TagOf(f)
        /\ IsInfix(Formatted(last.call), ev[1].data)
        /\ Len(sinks[ev[1].to]) >= 1
        /\ Newest(sinks, ev[1].to) = [line |-> ev[1].data, err |-> ev[1].err]

\* C5: a Panicf call (method or package) makes one Write of an E line holding
\* the message to the Error sink and then, as the last thing it does, raises a
\* panic whose value carries exactly the message; no exit callback is invoked;
\* a recovered panic leaves the goroutine running, with no panic in flight and
\* the process not exited.
C5_PanicAfterWrite ==
    /\ last.op = "Panicf" =>
          LET ev == last.events
              n  == Len(ev)
          IN  /\ WritesItsLineFirst
              /\ n >= 2
              /\ Count(ev, "Panic") = 1 /\ Count(ev, "Exit") = 0
              /\ ev[n].k = "Panic"
              /\ ev[n].data = Formatted(last.call)
              /\ pc \in {"panicking", "exited"}
              /\ panicv = Formatted(last.call)
              /\ last.via = "package" => last.l = Root
    /\ last.op = "recover" =>
          /\ pc = "running" /\ panicv = << >> /\ status < 0
          /\ last.events = << >>

\* C5's case: the package's Panicf("Test %s", "message") has written its line
\* and its panic is in flight.
C5_Witness ==
    /\ last.op = "Panicf" /\ last.via = "package" /\ last.call = TestCall
    /\ pc = "panicking"
    /\ panicv = <<"Test ", "message">>
    /\ Newest(sinks, loggers[Root].Error).line[1] = "E"

\* C6: a Fatalf call makes its one Write, of an F line, first; if the Logger's
\* exit callback is not nil it then invokes that callback, once, as the last
\* thing it does; if it is nil it invokes nothing and the goroutine runs on.
C6_ExitAfterWrite ==
    last.op = "Fatalf" =>
        LET ev == last.events
            n  == Len(ev)
            cb == loggers[last.l].Exit
        IN  /\ WritesItsLineFirst
            /\ Count(ev, "Panic") = 0
            /\ last.via = "package" => last.l = Root
            /\ IF cb # "nil"
               THEN /\ Count(ev, "Exit") = 1
                    /\ n >= 2 /\ ev[n].k = "Exit" /\ ev[n].to = cb
               ELSE /\ Count(ev, "Exit") = 0
                    /\ pc = "running" /\ status < 0 /\ panicv = << >>

\* C6's case: Fatalf on Root, whose callback was replaced by a caller's
\* closure: the closure was invoked after the Write and the goroutine runs on.
C6_Witness ==
    /\ last.op = "Fatalf" /\ last.l = Root
    /\ loggers[Root].Exit = "testExit"
    /\ Len(last.events) = 2 /\ last.events[2].to = "testExit"
    /\ pc = "running"

\* The Exit event of the most recent call.
ExitEvent == last.events[Len(last.events)]

FatalfInvoked ==
    /\ last.op = "Fatalf"
    /\ Len(last.events) >= 1
    /\ ExitEvent.k = "Exit"

ConsequenceFired ==
    \/ last.op = "Panicf"
    \/ FatalfInvoked

\* C8 as stated: when the consequence fires, the line is in the sink.
C8_Original ==
    ConsequenceFired =>
        LET d == loggers[last.l][FieldOf(last.op)]
        IN  /\ Len(sinks[d]) >= 1
            /\ Newest(sinks, d).err = "nil"
            /\ Newest(sinks, d).line[1] = TagOf(FieldOf(last.op))
            /\ IsInfix(Formatted(last.call), Newest(sinks, d).line)

\* C8 as the code has it: when the consequence fires, the Write of the line to
\* the bound sink has been made and has returned; the line is in the sink if
\* that Write succeeded, and if it failed the failure notice has been handed
\* to the base logger, also before the consequence.
C8_WriteReturnsFirst ==
    ConsequenceFired =>
        LET ev == last.events
            n  == Len(ev)
        IN  /\ WritesItsLineFirst
            /\ ev[n].k \in {"Panic", "Exit"}
            /\ Count(ev, "Panic") + Count(ev, "Exit") = 1
            /\ IF ev[1].err = "nil"
               THEN n = 2
               ELSE /\ n = 3
                    /\ ev[2].k = "Notice"
                    /\ Len(std) >= 1
                    /\ std[Len(std)] = ev[2].data
                    /\ IsInfix(Formatted(last.call), ev[2].data)

\* C8's case: the Write of Fatalf's line failed, the notice went to the base
\* logger, and then the exit callback was invoked.
C8_Witness ==
    /\ FatalfInvoked
    /\ Len(last.events) = 3
    /\ last.events[1].err = "EIO"
    /\ Newest(sinks, loggers[last.l].Fatal).err = "EIO"
    /\ Len(std) = 1

\* C9: when the sink's Write fails, write makes no second Write, hands the base
\* logger exactly one notice, holding the channel's name (the Logger's name and
\* the severity) and the message, and returns: sink bindings, thresholds and
\* exit callbacks are as before, Infof, Printf, V, Warnf and Errorf return to
\* their caller, and Panicf and Fatalf go on to their own consequence.
C9_FailureNotice ==
    [][ ( /\ pc = "running"
          /\ last'.op \in WriteOps
          /\ last'.events # << >>
          /\ last'.events[1].err # "nil" ) =>
          LET ev == last'.events
              f  == FieldOf(last'.op)
              l  == last'.l
          IN  /\ OneWriteTo(loggers[l][f])
              /\ Count(ev, "Write") = 1 /\ Count(ev, "Notice") = 1
              /\ ev[1].k = "Write" /\ ev[2].k = "Notice"
              /\ std' = Append(std, ev[2].data)
              /\ IsInfix(<<loggers[l].name, SevWord(f)>>, ev[2].data)
              /\ IsInfix(Formatted(last'.call), ev[2].data)
              /\ loggers' = loggers /\ Verbosity' = Verbosity
              /\ cells' = cells /\ Root' = Root
              /\ last'.op \in {"V", "Infof", "Printf", "Warnf", "Errorf"} =>
                    /\ Len(ev) = 2
                    /\ pc' = "running" /\ panicv' = panicv /\ status' = status
              /\ last'.op = "Panicf" =>
                    /\ Len(ev) = 3 /\ ev[3].k = "Panic"
                    /\ pc' = "panicking"
              /\ last'.op = "Fatalf" =>
                    /\ Count(ev, "Panic") = 0
                    /\ Count(ev, "Exit") = IF loggers[l].Exit = "nil" THEN 0 ELSE 1
                    /\ panicv' = panicv
      ]_vars

\* C9's case: Warnf on Root met a failing sink: the sink received one Write, the
\* base logger holds one notice naming the channel and carrying the message,
\* and the goroutine runs on.
C9_Witness ==
    /\ last.op = "Warnf" /\ last.l = Root
    /\ last.events[1].err = "EIO"
    /\ Len(last.events) = 2 /\ last.events[2].k = "Notice"
    /\ Len(sinks[loggers[Root].Warn]) = 1
    /\ Len(std) = 1
    /\ IsInfix(<<loggers[Root].name, " warn">>, std[1])
    /\ IsInfix(Formatted(last.call), std[1])
    /\ pc = "running"

\* Whether the Logger at address id was built by NewTest: its emitters write
\* to testWriters.
IsTestLogger(id) == IsTestWriter(loggers[id].i.out)

\* Where the emitter of (Logger id, field) delivers now.
Route(id, field) == WriteTo(Emitter(id, field).out)

\* In this step destination d received exactly one more call, and no other
\* destination any.
OneCallTo(d) ==
    /\ Len(sinks'[d]) = Len(sinks[d]) + 1
    /\ IsPrefix(sinks[d], sinks'[d])
    /\ \A s \in Destinations \ {d} : sinks'[s] = sinks[s]

\* C11: NewTest(t, name, failOnError) wires Info and Warn to t.Logf, Error to
\* t.Errorf when failOnError and to t.Logf otherwise, and Fatal to t.Fatalf;
\* no later step changes that wiring; and every Infof, Printf, loud V, Warnf,
\* Errorf and Fatalf on such a Logger calls exactly one function of the
\* harness, the one its severity is wired to, exactly once.
C11_HarnessRouting ==
    [][ /\ last'.op = "NewTest" =>
              \A l \in LoggerIds :
                  l = last'.l =>
                      /\ Route(l, "Info")' = "t.Logf"
                      /\ Route(l, "Warn")' = "t.Logf"
                      /\ Route(l, "Error")' =
                            IF last'.result THEN "t.Errorf" ELSE "t.Logf"
                      /\ Route(l, "Fatal")' = "t.Fatalf"
        /\ \A id \in Ids, f \in Fields :
              IsTestLogger(id) =>
                  IsTestLogger(id)' /\ Route(id, f)' = Route(id, f)
        /\ (pc = "running" /\ last'.op \in WriteOps /\ IsTestLogger(last'.l)) =>
              IF last'.op = "V" /\ ~last'.result
              THEN sinks' = sinks
              ELSE LET d == Route(last'.l, FieldOf(last'.op))
                   IN  /\ d \in Capabilities
                       /\ Len(last'.events) = 1
                       /\ last'.events[1].k = "Write"
                       /\ last'.events[1].to = d
                       /\ OneCallTo(d)
                       /\ Newest(sinks', d).line[1] = TagOf(FieldOf(last'.op))
                       /\ IsInfix(Formatted(last'.call), Newest(sinks', d).line)
      ]_vars

\* C11's case: Errorf on a Logger built with failOnError has just called
\* t.Errorf with its E line, after a Warnf that called t.Logf.
C11_Witness ==
    /\ last.op = "Errorf" /\ IsTestLogger(last.l)
    /\ Len(sinks["t.Errorf"]) = 1 /\ sinks["t.Errorf"][1].line[1] = "E"
    /\ Len(sinks["t.Logf"]) = 1 /\ sinks["t.Logf"][1].line[1] = "W"
    /\ sinks["t.Fatalf"] = << >>

\* What the method named op does with its emitter on the Logger at address id:
\* write(l.X, logDepth, l.name + " sev", format, v...).
MethodWrite(op, id, c, err) ==
    write(Emitter(id, FieldOf(op)), logDepth, Channel(id, SevWord(FieldOf(op))),
          c.format, c.args, err, Stack(op))

\* What the method named op leaves behind on the Logger at address id, given
\* what its write did: the events, and the goroutine and process after them.
MethodEffect(op, id, r) ==
    /\ last'.events =
          r.events
          \o (IF op = "Panicf"
              THEN <<Event("Panic", "caller", r.msg, "nil")>> ELSE << >>)
          \o (IF op = "Fatalf" /\ loggers[id].Exit # "nil"
              THEN <<Event("Exit", loggers[id].Exit, << >>, "nil")>> ELSE << >>)
    /\ sinks' = ApplySinks(sinks, r.events)
    /\ std' = ApplyStd(std, r.events)
    /\ panicv' = IF op = "Panicf" THEN r.msg ELSE panicv
    /\ pc' = CASE op = "Panicf" -> "panicking"
               [] op = "Fatalf" /\ loggers[id].Exit = "osExit" -> "exited"
               [] OTHER -> pc
    /\ status' = IF op = "Fatalf" /\ loggers[id].Exit = "osExit"
                 THEN DefaultExitStatus ELSE status

\* C12: Root always points to a Logger, and every call of a function of the
\* package does what the method of the same name does on the Logger Root points
\* to at the time of the call: the same answer of the gate, the same Writes to
\* the same destinations, the same notice, panic and exit callback; it changes
\* no Logger and not Root.
C12_PackageIsRootMethod ==
    [][ /\ Root \in Ids /\ Root' \in 1..Len(loggers')
        /\ (pc = "running" /\ last'.via = "package"
               /\ last'.op \in WriteOps \cup {"LoudEnough"}) =>
              /\ last'.l = Root
              /\ Root' = Root /\ loggers' = loggers /\ cells' = cells
              /\ Verbosity' = Verbosity
              /\ last'.op \in {"LoudEnough", "V"} =>
                    last'.result = LoudEnough(Root, last'.level)
              /\ IF last'.op = "LoudEnough" \/ (last'.op = "V" /\ ~last'.result)
                 THEN /\ last'.events = << >>
                      /\ UNCHANGED <<sinks, std, pc, panicv, status>>
                 ELSE \E err \in Errs :
                          MethodEffect(last'.op, Root,
                                       MethodWrite(last'.op, Root, last'.call, err))
      ]_vars

\* C12's case: Root was replaced by a Logger for a test, and the package's
\* Fatalf has just called t.Fatalf and returned, the replaced Logger's sink
\* having received nothing and its exit callback not having been invoked.
C12_Witness ==
    /\ Root = 2 /\ IsTestLogger(2) /\ ~IsTestLogger(1)
    /\ last.op = "Fatalf" /\ last.via = "package"
    /\ Len(sinks["t.Fatalf"]) = 1
    /\ sinks[loggers[1].Fatal] = << >>
    /\ loggers[1].Exit = "osExit"
    /\ pc = "running"

\* The operations of the Info, Warn and Error severities that only write.
PlainOps == {"V", "Infof", "Printf", "Warnf", "Errorf"}

\* C13: V, Infof, Printf, Warnf and Errorf, whether the sink's Write succeeds or
\* fails, invoke no exit callback, raise no panic, leave the goroutine running
\* and the process alive, and change no sink binding, no verbosity binding or
\* cell and no exit callback; a panic is raised only by Panicf and an exit
\* callback is invoked only by Fatalf.
C13_PlainWrites ==
    [][ /\ (pc = "running" /\ last'.op \in PlainOps) =>
              /\ Count(last'.events, "Exit") = 0
              /\ Count(last'.events, "Panic") = 0
              /\ pc' = "running"
              /\ panicv' = panicv /\ panicv = << >>
              /\ status' = status /\ status < 0
              /\ loggers' = loggers /\ cells' = cells
              /\ Verbosity' = Verbosity /\ Root' = Root
        /\ (pc = "running" /\ (pc' = "panicking"
                                \/ Count(last'.events, "Panic") > 0)) =>
              last'.op = "Panicf"
        /\ (pc = "running" /\ (pc' = "exited"
                                \/ Count(last'.events, "Exit") > 0)) =>
              last'.op = "Fatalf"
      ]_vars

\* C13's case: Errorf met a failing sink while the exit callback was the one
\* New installs: the notice was written and the goroutine runs on.
C13_Witness ==
    /\ last.op = "Errorf"
    /\ Len(last.events) = 2 /\ last.events[1].err = "EIO"
    /\ loggers[last.l].Exit = "osExit"
    /\ pc = "running" /\ status < 0 /\ panicv = << >>

\* The source location in the header of a line written under Lshortfile.
Location(line) == line[2]

\* The frames that belong to the package: the emitter, write and the operations.
InsideFrames == {"log.Output", "write"} \cup WriteOps

ReadmeRedirection ==
    /\ loggers[Root].Info = "il"
    /\ loggers[Root].Warn = MultiWriter(<<"il", "wl">>)
    /\ loggers[Root].Error = MultiWriter(<<loggers[Root].Warn, "el">>)
    /\ loggers[Root].Fatal = MultiWriter(<<loggers[Root].Error, "os.Stderr">>)

\* The logs a message of a severity is to reach under that redirection.
LogsOf(field) ==
    CASE field = "Info"  -> {"il"}
      [] field = "Warn"  -> {"il", "wl"}
      [] field = "Error" -> {"il", "wl", "el"}
      [] field = "Fatal" -> {"il", "wl", "el", "os.Stderr"}

\* C15: under the README's redirection, every severity operation whose Write
\* succeeds adds its line exactly once to each of the logs of its severity
\* (Info: the info log; Warn: info and warn; Error: info, warn and error;
\* Fatal: those three and stderr) and nothing to any other destination.
C15_CumulativeFanOut ==
    [][ (pc = "running" /\ ReadmeRedirection /\ last'.op \in WriteOps
         /\ last'.events # << >> /\ last'.events[1].err = "nil") =>
              \A s \in Destinations :
                  IF s \in LogsOf(FieldOf(last'.op))
                  THEN /\ Len(sinks'[s]) = Len(sinks[s]) + 1
                       /\ IsPrefix(sinks[s], sinks'[s])
                       /\ Newest(sinks', s).line[1] = TagOf(FieldOf(last'.op))
                       /\ IsInfix(Formatted(last'.call), Newest(sinks', s).line)
                  ELSE sinks'[s] = sinks[s]
      ]_vars

\* C15's case: under the README's redirection an Infof and then a Fatalf were
\* called: the info log holds both lines, the warn and error logs and stderr
\* hold the F line.
C15_Witness ==
    /\ ReadmeRedirection
    /\ last.op = "Fatalf"
    /\ Len(sinks["il"]) = 2
    /\ sinks["il"][1].line[1] = "I" /\ sinks["il"][2].line[1] = "F"
    /\ \A s \in {"wl", "el", "os.Stderr"} :
          Len(sinks[s]) = 1 /\ sinks[s][1].line[1] = "F"

\* C16: whatever is assigned to the Info, Warn, Error and Fatal fields of a
\* Logger built by NewTest, the destination of each of its severities stays
\* the function of the harness chosen at construction, and every line it
\* writes goes to that function and to no sink, assigned or not.
C16_FieldsPlayNoPart ==
    [][ /\ \A id \in Ids, f \in Fields :
              IsTestLogger(id) =>
                  /\ Route(id, f) \in Capabilities
                  /\ Route(id, f)' = Route(id, f)
        /\ (pc = "running" /\ last'.op \in WriteOps /\ IsTestLogger(last'.l)
               /\ last'.events # << >>) =>
              /\ \A n \in DOMAIN last'.events :
                    last'.events[n].k = "Write" =>
                        /\ last'.events[n].to \in Capabilities
                        /\ last'.events[n].to \notin
                              {loggers[last'.l][f] : f \in Fields}
              /\ OneCallTo(Route(last'.l, FieldOf(last'.op)))
              /\ \A s \in Sinks : sinks'[s] = sinks[s]
      ]_vars

\* C16's case: the Fatal field of a Logger built by NewTest was assigned a
\* buffer, and its Fatalf has just called t.Fatalf, the buffer staying empty.
C16_Witness ==
    /\ last.op = "Fatalf" /\ IsTestLogger(last.l)
    /\ loggers[last.l].Fatal = "fl"
    /\ sinks["fl"] = << >>
    /\ Len(sinks["t.Fatalf"]) = 1 /\ sinks["t.Fatalf"][1].line[1] = "F"

\* The records destination s receives from the Writes among events, in order.
RECURSIVE Received(_, _)
Received(events, s) ==
    IF events = << >> THEN << >>
    ELSE LET ev == Head(events)
         IN  (IF ev.k = "Write" /\ s \in {t \in Destinations :
                                            \E n \in DOMAIN Deliveries(ev.to, ev.err) :
                                                Deliveries(ev.to, ev.err)[n] = t}
              THEN <<[line |-> ev.data, err |-> ev.err]>> ELSE << >>)
             \o Received(Tail(events), s)

\* C17: every severity operation that writes has made its Write by the time it
\* returns, and what a destination holds after a call is what it held before
\* followed by the line of that call: lines of successive calls of one
\* goroutine lie in a destination in the order of the calls, also when they
\* come from different severities bound to the same destination.
C17_CallOrder ==
    [][ /\ \A s \in Destinations :
              sinks'[s] = sinks[s] \o (IF pc = "running"
                                       THEN Received(last'.events, s)
                                       ELSE << >>)
        /\ (pc = "running" /\ last'.op \in WriteOps
               /\ (last'.op = "V" => last'.result)) =>
              /\ Len(last'.events) >= 1
              /\ last'.events[1].k = "Write"
              /\ Newest(sinks', last'.events[1].to).line = last'.events[1].data
      ]_vars

\* C17's case: Infof and then Warnf were called on a Logger built by NewTest:
\* t.Logf holds the I line and, after it, the W line.
C17_Witness ==
    /\ last.op = "Warnf" /\ IsTestLogger(last.l)
    /\ Len(sinks["t.Logf"]) = 2
    /\ sinks["t.Logf"][1].line[1] = "I"
    /\ sinks["t.Logf"][2].line[1] = "W"

\* ---------------------------------------------------------------- C18
\* C18: while one goroutine reassigns a Logger's informational sink from A to
\* B and another emits at that severity, every line emitted is received
\* exactly once and whole by A or by B, never lost, duplicated or split, and
\* the process runs on; a line whose emission begins after the reassignment
\* is received by B.
C18_Original ==
    [][ (goroutine.pc = "data" /\ goroutine'.pc = "idle")
        => /\ pc' = "running"
           /\ \E d \in {goroutine.held, loggers[goroutine.l].Info} :
                 /\ Len(sinks'[d]) = Len(sinks[d]) + 1
                 /\ Newest(sinks', d).line = goroutine.line
                 /\ \A s \in Destinations \ {d} : sinks'[s] = sinks[s]
           /\ goroutine.held = loggers[goroutine.l].Info
                 => Len(sinks'[goroutine.held]) = Len(sinks[goroutine.held]) + 1
      ]_vars

\* ---------------------------------------------------------------- C19
\* The package-level call of the second goroutine has returned.
PkgCallDone == goroutine.pc = "idle" /\ goroutine.op \in {"V", "Fatalf"}

\* C19 as stated: when Root is replaced while a package-level V or Fatalf is
\* running, the gate it checked, the sink it wrote to and the exit callback it
\* invoked all belong to one Logger, the old Root or the new, never a mix.
C19_Original ==
    PkgCallDone =>
        \A j, k \in DOMAIN goroutine.uses :
            goroutine.uses[j].l = goroutine.uses[k].l

\* C19: a package-level V or Fatalf loads Root anew for the gate, the emitter,
\* the channel name, the test of Exit and the call of Exit.  Each of them is
\* taken from the Logger Root points to when it is loaded, or from the Logger
\* the load before it yielded; the call leaves Root alone.  The gate decides
\* by the Logger it was taken from, the line goes where the emitter taken
\* sends it, and the callback invoked is the one of the Logger taken last.
C19_EachUseLoadsRoot ==
    [][ (/\ goroutine'.uses # goroutine.uses
         /\ goroutine'.uses # << >>
         /\ goroutine'.op \in {"V", "Fatalf"})
        => LET us == goroutine'.uses
               n  == Len(us)
               u  == us[n]
           IN  /\ Root' = Root
               /\ IF n = 1
                  THEN u.l = Root
                  ELSE /\ SubSeq(us, 1, n - 1) = goroutine.uses
                       /\ u.l \in {Root, us[n - 1].l}
               /\ u.use = "gate"
                     => (goroutine'.pc = "emitter")
                           = LoudEnough(u.l, goroutine'.level)
               /\ u.use = "name"
                     => \A e \in LoggerIds :
                           e = us[n - 1].l
                           => /\ us[n - 1].use = "emitter"
                              /\ goroutine'.events[1].k = "Write"
                              /\ goroutine'.events[1].to
                                    = WriteTo(EmitterOf(e, goroutine.op).out)
                              /\ sinks' = ApplySinks(sinks, goroutine'.events)
               /\ u.use = "check"
                     => (goroutine'.pc = "exit") = (loggers[u.l].Exit # "nil")
               /\ u.use = "exit"
                     => goroutine'.events[Len(goroutine'.events)].to
                           = loggers[u.l].Exit
      ]_vars

\* V of the package has checked the gate of the first Logger and written
\* through the emitter of the second: the line is in t.Logf.
C19_Witness ==
    /\ PkgCallDone
    /\ goroutine.op = "V"
    /\ Len(goroutine.uses) = 3
    /\ goroutine.uses[1] = Use("gate", 1)
    /\ goroutine.uses[2] = Use("emitter", 2)
    /\ Len(sinks["t.Logf"]) > 0

====
